---------------------------- MODULE Spec2Model ----------------------------
(***************************************************************************)
(* Model of src/utils/github_updater.rs: the pass that refreshes the       *)
(* GitHub fields of the crates table (github_updater), the remote call and *)
(* defensive decoding (get_github_fields) and the URL-to-path extraction   *)
(* (get_github_path).                                                      *)
(*                                                                         *)
(* Strings are sequences of one-character strings, so that the regular     *)
(* expressions and the ".git" handling are computed character by           *)
(* character.  64-bit integers are four 16-bit limbs (two's complement,    *)
(* most significant first); 32-bit integers are plain integers.            *)
(***************************************************************************)
EXTENDS Integers, Sequences, FiniteSets, TLC

\* Option<T>: None is the empty tuple, Some(x) the one-element tuple.
None == <<>>

Some(x) == <<x>>

(***************************************************************************)
(* Characters and string helpers                                           *)
(***************************************************************************)
Letters ==
    {"a","b","c","d","e","f","g","h","i","j","k","l","m","n","o","p","q",
     "r","s","t","u","v","w","x","y","z","D","L","M","R"}

Digits == {"0","1","2","3","4","5","6","7","8","9"}

\* The character class [\w\._-] of the extractor's pattern.
IsPathChar(c) == c \in Letters \cup Digits \cup {"_", ".", "-"}

\* s[i..] starts with lit.
StartsAt(s, i, lit) ==
    /\ i >= 1
    /\ i + Len(lit) - 1 <= Len(s)
    /\ \A k \in 1..Len(lit) : s[i + k - 1] = lit[k]

\* str::ends_with
EndsWith(s, lit) == Len(s) >= Len(lit) /\ StartsAt(s, Len(s) - Len(lit) + 1, lit)

\* The index after the longest run of path characters starting at i.
RECURSIVE RunEnd(_, _)
RunEnd(s, i) ==
    IF i <= Len(s) /\ IsPathChar(s[i]) THEN RunEnd(s, i + 1) ELSE i

DotGit == <<".", "g", "i", "t">>

\* str::split(pat).next(): the part of s before the first occurrence of pat
\* (the whole of s when pat does not occur).
SplitFirst(s, pat) ==
    LET hits == {i \in 1..Len(s) : StartsAt(s, i, pat)}
    IN  IF hits = {} THEN s
        ELSE LET first == CHOOSE i \in hits : \A j \in hits : i <= j
             IN  SubSeq(s, 1, first - 1)

(***************************************************************************)
(* get_github_path: Regex::captures finds the leftmost match of            *)
(*   https?://github\.com/([\w\._-]+)/([\w\._-]+)                          *)
(* anywhere in the input.  Neither group's class holds "/", so each group  *)
(* is the longest run of path characters at its place.                     *)
(***************************************************************************)
Http == <<"h", "t", "t", "p">>

HostPart == <<":", "/", "/", "g", "i", "t", "h", "u", "b", ".", "c", "o", "m", "/">>

\* The captures of a match starting exactly at index i, or None.
CapturesAt(s, i) ==
    IF ~StartsAt(s, i, Http) THEN None
    ELSE LET p1 == i + Len(Http)
             p2 == IF StartsAt(s, p1, <<"s">>) THEN p1 + 1 ELSE p1
         IN  IF ~StartsAt(s, p2, HostPart) THEN None
             ELSE LET u0 == p2 + Len(HostPart)
                      u1 == RunEnd(s, u0)
                  IN  IF u1 = u0 \/ ~StartsAt(s, u1, <<"/">>) THEN None
                      ELSE LET r0 == u1 + 1
                               r1 == RunEnd(s, r0)
                           IN  IF r1 = r0 THEN None
                               ELSE Some([username |-> SubSeq(s, u0, u1 - 1),
                                          reponame |-> SubSeq(s, r0, r1 - 1)])

\* re.captures(url): the leftmost match.
Captures(s) ==
    LET starts == {i \in 1..Len(s) : CapturesAt(s, i) # None}
    IN  IF starts = {} THEN None
        ELSE CapturesAt(s, CHOOSE i \in starts : \A j \in starts : i <= j)

\* The reponame with the ".git" handling of lines 137-141.
StripGit(reponame) ==
    IF EndsWith(reponame, DotGit) THEN SplitFirst(reponame, DotGit) ELSE reponame

get_github_path(url) ==
    LET cap == Captures(url)
    IN  IF cap = None THEN None
        ELSE Some(cap[1].username \o <<"/">> \o StripGit(cap[1].reponame))

(***************************************************************************)
(* Integers.  An i64 (and a JSON u64) is <<l1, l2, l3, l4>>, four 16-bit   *)
(* limbs, most significant first; an i32 is an integer of TLA+.            *)
(***************************************************************************)
I64Zero == <<0, 0, 0, 0>>

\* `x as i32` (lines 53-55): the low 32 bits, read as two's complement.
AsI32(x) ==
    IF x[3] >= 2^15 THEN (x[3] - 2^16) * 2^16 + x[4] ELSE x[3] * 2^16 + x[4]

\* The i64 with the value of the i32 n (sign extension).
I64OfI32(n) ==
    IF n >= 0 THEN <<0, 0, n \div 2^16, n % 2^16>>
    ELSE <<2^16 - 1, 2^16 - 1, (n \div 2^16) + 2^16, n % 2^16>>

(***************************************************************************)
(* serde_json::Value.  A value is a record [t, v]: t its kind, v its       *)
(* payload.  Numbers are as serde_json keeps them: "posint" (u64),         *)
(* "negint" (i64 below zero) or "float".  An object's payload is a         *)
(* function from its keys to values.                                       *)
(***************************************************************************)
JNull == [t |-> "null", v |-> 0]

JBool(b) == [t |-> "bool", v |-> b]

JPosInt(limbs) == [t |-> "posint", v |-> limbs]

JNegInt(limbs) == [t |-> "negint", v |-> limbs]

JFloat == [t |-> "float", v |-> 0]

JStr(str) == [t |-> "str", v |-> str]

JArray == [t |-> "array", v |-> 0]

JObject(map) == [t |-> "object", v |-> map]

\* Value::as_object
as_object(json) == IF json.t = "object" THEN Some(json.v) ELSE None

\* Map::get
get(obj, key) == IF key \in DOMAIN obj THEN Some(obj[key]) ELSE None

\* Value::as_str
as_str(d) == IF d.t = "str" THEN Some(d.v) ELSE None

\* Value::as_i64: a u64 converts when it is at most i64::MAX.
as_i64(d) ==
    CASE d.t = "posint" -> IF d.v[1] < 2^15 THEN Some(d.v) ELSE None
      [] d.t = "negint" -> Some(d.v)
      [] OTHER -> None

\* Option::and_then(|d| d.as_str())
and_then_as_str(opt) == IF opt = None THEN None ELSE as_str(opt[1])

\* Option::and_then(|d| d.as_i64())
and_then_as_i64(opt) == IF opt = None THEN None ELSE as_i64(opt[1])

\* Option::unwrap_or
unwrap_or(opt, default) == IF opt = None THEN default ELSE opt[1]

(***************************************************************************)
(* Time is in seconds.  DateTime::parse_from_rfc3339 is given on the       *)
(* strings the model uses: the local date-time and the offset it reads,    *)
(* or None for a string that is not RFC 3339.                              *)
(***************************************************************************)
parse_from_rfc3339(str) ==
    CASE str = "1970-01-01T00:00:07Z"      -> Some([local |-> 7, offset |-> 0])
      [] str = "1970-01-01T01:00:09+01:00" -> Some([local |-> 3609, offset |-> 3600])
      [] OTHER -> None

\* DateTime::with_timezone(&Utc): the same instant, as seconds in UTC.
with_timezone_utc(dt) == dt.local - dt.offset

(***************************************************************************)
(* get_github_fields.  The remote side is a response record:               *)
(*   send   "ok" or "err"   the outcome of send()                          *)
(*   status                 the HTTP status                                *)
(*   read   "ok" or "err"   the outcome of read_to_string                  *)
(*   json                   Value::from_str of the body: Some(value), or   *)
(*                          None when the body is not JSON                 *)
(* A Result is [tag, val]: "Ok" with the value, "Err" with the error, or   *)
(* "Panic" when the call unwinds.                                          *)
(***************************************************************************)
Ok(x) == [tag |-> "Ok", val |-> x]

Err(e) == [tag |-> "Err", val |-> e]

Panic == [tag |-> "Panic", val |-> "unwrap on None"]

\* GitHubFields reading the issue count from a member the API does not send.
GitHubFields_WrongKey(obj, utc_now) ==
    [description |-> unwrap_or(and_then_as_str(get(obj, "description")), ""),
     stars       |-> unwrap_or(and_then_as_i64(get(obj, "stargazers_count")), I64Zero),
     forks       |-> unwrap_or(and_then_as_i64(get(obj, "forks_count")), I64Zero),
     issues      |-> unwrap_or(and_then_as_i64(get(obj, "open_issues_count")), I64Zero),
     last_commit |->
         LET parsed == parse_from_rfc3339(
                           unwrap_or(and_then_as_str(get(obj, "pushed_at")), ""))
         IN  IF parsed = None THEN utc_now ELSE with_timezone_utc(parsed[1])]

\* Lines 110-127: the record built from the object.
GitHubFields(obj, utc_now) ==
    [description |-> unwrap_or(and_then_as_str(get(obj, "description")), ""),
     stars       |-> unwrap_or(and_then_as_i64(get(obj, "stargazers_count")), I64Zero),
     forks       |-> unwrap_or(and_then_as_i64(get(obj, "forks_count")), I64Zero),
     issues      |-> unwrap_or(and_then_as_i64(get(obj, "open_issues")), I64Zero),
     last_commit |->
         LET parsed == parse_from_rfc3339(
                           unwrap_or(and_then_as_str(get(obj, "pushed_at")), ""))
         IN  IF parsed = None THEN utc_now ELSE with_timezone_utc(parsed[1])]

\* get_github_fields without the check of the status (lines 99-101).
get_github_fields_AnyStatus(resp, utc_now) ==
    IF resp.send # "ok" THEN Err("reqwest::Error")
    ELSE IF resp.read # "ok" THEN Err("io::Error")
    ELSE IF resp.json = None THEN Err("serde_json::Error")
    ELSE LET obj == as_object(resp.json[1])
         IN  IF obj = None THEN Panic
             ELSE Ok(GitHubFields(obj[1], utc_now))

get_github_fields(resp, utc_now) ==
    IF resp.send # "ok" THEN Err("reqwest::Error")
    ELSE IF resp.status # 200 THEN Err("Failed to get github data")
    ELSE IF resp.read # "ok" THEN Err("io::Error")
    ELSE IF resp.json = None THEN Err("serde_json::Error")
    ELSE LET obj == as_object(resp.json[1])
         IN  IF obj = None THEN Panic
             ELSE Ok(GitHubFields(obj[1], utc_now))

(***************************************************************************)
(* The store: the crates and releases tables.                              *)
(***************************************************************************)
NumCrates == 2

MaxReleases == 2

MaxReleaseTime == 2

MaxPasses == 2

MaxDays == 2

\* INTERVAL '1 day', in seconds.
DaySecs == 86400

\* Duration::from_secs(2)
SleepSecs == 2

CrateIds == 1..NumCrates

\* crates.name, as its rank in the collation order: the crates were
\* registered in the reverse of their alphabetical order.
CrateName(id) == NumCrates + 1 - id

\* Release URLs (releases.repository_url).
UrlGit ==
    <<"h","t","t","p","s",":","/","/","g","i","t","h","u","b",".","c","o","m",
      "/","a","/","b",".","g","i","t">>

\* Matches the pattern of the SELECT, but has no repository.
UrlNoRepo ==
    <<"h","t","t","p",":","/","/","g","i","t","h","u","b",".","c","o","m",
      "/","a">>

UrlGitlab ==
    <<"h","t","t","p","s",":","/","/","g","i","t","l","a","b",".","c","o","m",
      "/","a","/","b">>

ReleaseUrls == {UrlGit, UrlNoRepo, UrlGitlab}

\* A crates row before its first update: every github column is NULL.
NullCrate ==
    [github_description |-> None, github_stars |-> None, github_forks |-> None,
     github_issues |-> None, github_last_commit |-> None,
     github_last_update |-> None]

VARIABLES
    crates,     \* crates table: id -> the github columns, each None (NULL) or Some
    releases,   \* releases table: set of [crate_id, repository_url, release_time]
    now,        \* the clock, in seconds
    pc,         \* "idle", "loop", "returned" or "panicked"
    rows,       \* the rows of the query of the running pass
    idx,        \* index in rows of the next row of the for loop
    result,     \* what the last invocation ended in: "none", "Ok", "Err", "Panic"
    events,     \* what the running (or last) pass did, in order
    passes,     \* number of invocations so far
    fn_in,      \* argument of a function called on its own
    fn_out      \* its result

vars == <<crates, releases, now, pc, rows, idx, result, events, passes, fn_in, fn_out>>

(***************************************************************************)
(* The SELECT of lines 24-33.                                              *)
(***************************************************************************)
SqlPattern == <<":", "/", "/", "g", "i", "t", "h", "u", "b">>

\* repository_url ~ '^https?://github.com' (the dot matches any character).
SqlMatches(url) ==
    /\ StartsAt(url, 1, Http)
    /\ LET p == IF StartsAt(url, 5, <<"s">>) THEN 6 ELSE 5
       IN  /\ StartsAt(url, p, SqlPattern)
           /\ StartsAt(url, p + Len(SqlPattern) + 1, <<"c", "o", "m">>)

\* The WHERE clause without the interval: any update in the past is stale.
Stale_NoInterval(crate, t) ==
    \/ crate.github_last_update = None
    \/ crate.github_last_update[1] < t

\* github_last_update < NOW() - INTERVAL '1 day' OR github_last_update IS NULL
Stale(crate, t) ==
    \/ crate.github_last_update = None
    \/ crate.github_last_update[1] < t - DaySecs

\* The joined rows the WHERE clause keeps for one crate.
Qualifying(cr, rel, t, id) ==
    {r \in rel : r.crate_id = id /\ SqlMatches(r.repository_url) /\ Stale(cr[id], t)}

\* ORDER BY release_time without DESC: the oldest rows come first.
FirstRows_Ascending(cr, rel, t, id) ==
    {r \in Qualifying(cr, rel, t, id) :
        \A q \in Qualifying(cr, rel, t, id) : r.release_time <= q.release_time}

\* ORDER BY release_time DESC: the rows that may come first for a crate
\* (rows with equal release_time come in any order).
FirstRows(cr, rel, t, id) ==
    {r \in Qualifying(cr, rel, t, id) :
        \A q \in Qualifying(cr, rel, t, id) : q.release_time <= r.release_time}

\* The ids in S in the order of ORDER BY crates.name.
RECURSIVE ByName(_)
ByName(S) ==
    IF S = {} THEN <<>>
    ELSE LET first == CHOOSE id \in S : \A o \in S : CrateName(id) <= CrateName(o)
         IN  <<first>> \o ByName(S \ {first})

\* The query without DISTINCT ON: one row per joined row.
RECURSIVE AllRows(_, _, _, _)
AllRows(cr, rel, t, order) ==
    IF order = <<>> THEN <<>>
    ELSE LET id == Head(order)
             q  == Qualifying(cr, rel, t, id)
             RECURSIVE Desc(_)
             Desc(S) ==
                 IF S = {} THEN <<>>
                 ELSE LET r == CHOOSE r \in S :
                                   \A o \in S : o.release_time <= r.release_time
                      IN  <<[name |-> CrateName(id), id |-> id,
                             repository_url |-> r.repository_url]>>
                          \o Desc(S \ {r})
         IN  Desc(q) \o AllRows(cr, rel, t, Tail(order))

Select_NoDistinct(cr, rel, t) ==
    {AllRows(cr, rel, t,
             ByName({id \in CrateIds : Qualifying(cr, rel, t, id) # {}}))}

\* Every result the query may return: one row per crates.name (DISTINCT ON),
\* the first of its rows in the order.
Select(cr, rel, t) ==
    LET ids   == {id \in CrateIds : Qualifying(cr, rel, t, id) # {}}
        order == ByName(ids)
        picks == {f \in [ids -> rel] : \A id \in ids : f[id] \in FirstRows(cr, rel, t, id)}
    IN  {[k \in 1..Len(order) |->
            [name |-> CrateName(order[k]), id |-> order[k],
             repository_url |-> f[order[k]].repository_url]] : f \in picks}

(***************************************************************************)
(* What the remote API may answer.                                         *)
(***************************************************************************)
Response(send, status, read, json) ==
    [send |-> send, status |-> status, read |-> read, json |-> json]

\* {"description": .., "stargazers_count": 2^31, "forks_count": 3,
\*  "open_issues": 1, "pushed_at": ..}
ObjFull ==
    [description      |-> JStr("docs"),
     stargazers_count |-> JPosInt(<<0, 0, 2^15, 0>>),
     forks_count      |-> JPosInt(<<0, 0, 0, 3>>),
     open_issues      |-> JPosInt(<<0, 0, 0, 1>>),
     pushed_at        |-> JStr("1970-01-01T00:00:07Z")]

\* {"description": "x", "stargazers_count": 5}
ObjPartial ==
    [description |-> JStr("x"), stargazers_count |-> JPosInt(<<0, 0, 0, 5>>)]

\* {"message": "Not Found"}
ObjNotFound == [message |-> JStr("Not Found")]

Responses ==
    {Response("err", 0, "err", None),                  \* send() fails
     Response("ok", 404, "ok", Some(JObject(ObjNotFound))),
     Response("ok", 202, "ok", Some(JObject(ObjPartial))),  \* accepted, not 200
     Response("ok", 200, "err", None),                 \* the body cannot be read
     Response("ok", 200, "ok", None),                  \* the body is not JSON
     Response("ok", 200, "ok", Some(JArray)),          \* JSON, but no object
     Response("ok", 200, "ok", Some(JObject(ObjFull))),
     Response("ok", 200, "ok", Some(JObject(ObjPartial)))}

(***************************************************************************)
(* github_updater, one row of the for loop (lines 36-64): the chain        *)
(*   get_github_path(..).ok_or_else(..).and_then(get_github_fields)        *)
(*                       .and_then(conn.execute(UPDATE ..))                *)
(* Attempt gives what the chain did for a row: the path found, the result  *)
(* of the remote call (None: no call was made), the result of the UPDATE   *)
(* (None: it was not executed) and the value of the chain.                 *)
(***************************************************************************)
\* The chain without the ok_or_else of line 41: a row without a path is
\* fetched all the same.
Attempt_NoPathCheck(row, resp, db_ok, t) ==
    LET path  == get_github_path(row.repository_url)
        fetch == Some(get_github_fields(resp, t))
        exec  == IF fetch[1].tag = "Ok"
                 THEN Some(IF db_ok THEN Ok(1) ELSE Err("postgres::Error"))
                 ELSE None
    IN  [path  |-> path,
         fetch |-> fetch,
         exec  |-> exec,
         value |-> IF exec = None THEN fetch[1] ELSE exec[1]]

\* The chain with a failed fetch replaced by the defaults (unwrap_or_default
\* in place of and_then): the UPDATE runs all the same.
Attempt_DefaultsOnError(row, resp, db_ok, t) ==
    LET path  == get_github_path(row.repository_url)
        got   == get_github_fields(resp, t)
        fetch == IF path = None THEN None
                 ELSE IF got.tag = "Err" THEN Some(Ok(GitHubFields(<<>>, t)))
                 ELSE Some(got)
        exec  == IF fetch # None /\ fetch[1].tag = "Ok"
                 THEN Some(IF db_ok THEN Ok(1) ELSE Err("postgres::Error"))
                 ELSE None
    IN  [path  |-> path,
         fetch |-> fetch,
         exec  |-> exec,
         value |-> IF path = None THEN Err("Failed to get github path")
                   ELSE IF exec = None THEN fetch[1]
                   ELSE exec[1]]

Attempt(row, resp, db_ok, t) ==
    LET path  == get_github_path(row.repository_url)
        fetch == IF path = None THEN None ELSE Some(get_github_fields(resp, t))
        exec  == IF fetch # None /\ fetch[1].tag = "Ok"
                 THEN Some(IF db_ok THEN Ok(1) ELSE Err("postgres::Error"))
                 ELSE None
    IN  [path  |-> path,
         fetch |-> fetch,
         exec  |-> exec,
         value |-> IF path = None THEN Err("Failed to get github path")
                   ELSE IF exec = None THEN fetch[1]
                   ELSE exec[1]]

\* The UPDATE without `github_last_update = NOW()` (line 49).
\* The UPDATE without its WHERE clause: every row is written.
Update_NoWhere(cr, id, fields, t) ==
    [i \in DOMAIN cr |->
        [github_description |-> Some(fields.description),
         github_stars       |-> Some(AsI32(fields.stars)),
         github_forks       |-> Some(AsI32(fields.forks)),
         github_issues      |-> Some(AsI32(fields.issues)),
         github_last_commit |-> Some(fields.last_commit),
         github_last_update |-> Some(t)]]

\* The UPDATE with github_stars = github_stars + $2 (NULL counted as 0).
Update_AddStars(cr, id, fields, t) ==
    [cr EXCEPT ![id] =
        [github_description |-> Some(fields.description),
         github_stars       |-> Some((IF cr[id].github_stars = None THEN 0
                                      ELSE cr[id].github_stars[1])
                                     + AsI32(fields.stars)),
         github_forks       |-> Some(AsI32(fields.forks)),
         github_issues      |-> Some(AsI32(fields.issues)),
         github_last_commit |-> Some(fields.last_commit),
         github_last_update |-> Some(t)]]

Update_NoStamp(cr, id, fields, t) ==
    [cr EXCEPT ![id] =
        [github_description |-> Some(fields.description),
         github_stars       |-> Some(AsI32(fields.stars)),
         github_forks       |-> Some(AsI32(fields.forks)),
         github_issues      |-> Some(AsI32(fields.issues)),
         github_last_commit |-> Some(fields.last_commit),
         github_last_update |-> cr[id].github_last_update]]

\* The UPDATE of lines 45-58 on the row WHERE id = $6.
Update(cr, id, fields, t) ==
    [cr EXCEPT ![id] =
        [github_description |-> Some(fields.description),
         github_stars       |-> Some(AsI32(fields.stars)),
         github_forks       |-> Some(AsI32(fields.forks)),
         github_issues      |-> Some(AsI32(fields.issues)),
         github_last_commit |-> Some(fields.last_commit),
         github_last_update |-> Some(t)]]

\* An event of a pass: what was done (ev), for which row of the query (n, 0
\* for the query itself), at what time (at), with what (info).
Event(ev, n, at, info) == [ev |-> ev, n |-> n, at |-> at, info |-> info]

\* The events of one row, in the order the code produces them.
EventsOf(n, row, resp, a, t) ==
    <<Event("extract", n, t, a.path)>>
    \o (IF a.fetch = None THEN <<>>
        ELSE <<Event("request", n, t,
                     [path |-> a.path, resp |-> resp, result |-> a.fetch[1]])>>)
    \o (IF a.exec = None THEN <<>>
        ELSE <<Event("update", n, t, [id |-> row.id, result |-> a.exec[1]])>>)
    \o (IF a.value.tag = "Err" THEN <<Event("log", n, t, row.name)>> ELSE <<>>)
    \o (IF a.value.tag = "Panic" THEN <<>>
        ELSE <<Event("sleep", n, t, SleepSecs)>>)

(***************************************************************************)
(* Initial state and actions                                               *)
(***************************************************************************)
Init ==
    /\ crates = [id \in CrateIds |-> NullCrate]
    /\ releases = {}
    /\ now = 0
    /\ pc = "idle"
    /\ rows = <<>>
    /\ idx = 1
    /\ result = "none"
    /\ events = <<>>
    /\ passes = 0
    /\ fn_in = None
    /\ fn_out = None

\* github_updater is invoked and its query fails: the `?` of line 35 returns.
QueryFails ==
    /\ pc # "loop"
    /\ passes < MaxPasses
    /\ passes' = passes + 1
    /\ rows' = <<>>
    /\ idx' = 1
    /\ events' = <<Event("query", 0, now, "Err")>>
    /\ result' = "Err"
    /\ pc' = "returned"
    /\ UNCHANGED <<crates, releases, now, fn_in, fn_out>>

\* github_updater is invoked and its query returns its rows.
Query ==
    /\ pc # "loop"
    /\ passes < MaxPasses
    /\ passes' = passes + 1
    /\ rows' \in Select(crates, releases, now)
    /\ idx' = 1
    /\ events' = <<Event("query", 0, now, "Ok")>>
    /\ result' = "none"
    /\ pc' = "loop"
    /\ UNCHANGED <<crates, releases, now, fn_in, fn_out>>

\* One row of the for loop, with the sleep that ends it; a panic unwinds
\* out of github_updater.
ProcessRow ==
    /\ pc = "loop"
    /\ idx <= Len(rows)
    /\ \E resp \in Responses, db_ok \in BOOLEAN :
         LET row == rows[idx]
             a   == Attempt(row, resp, db_ok, now)
         IN  /\ crates' = IF a.exec # None /\ a.exec[1].tag = "Ok"
                          THEN Update(crates, row.id, a.fetch[1].val, now)
                          ELSE crates
             /\ events' = events \o EventsOf(idx, row, resp, a, now)
             /\ IF a.value.tag = "Panic"
                THEN /\ pc' = "panicked"
                     /\ result' = "Panic"
                     /\ UNCHANGED <<idx, now>>
                ELSE /\ idx' = idx + 1
                     /\ now' = now + SleepSecs
                     /\ UNCHANGED <<pc, result>>
    /\ UNCHANGED <<releases, rows, passes, fn_in, fn_out>>

\* The loop is over: Ok(()) of line 72.
ReturnOk ==
    /\ pc = "loop"
    /\ idx > Len(rows)
    /\ pc' = "returned"
    /\ result' = "Ok"
    /\ UNCHANGED <<crates, releases, now, rows, idx, events, passes, fn_in, fn_out>>

\* Time passes between invocations (within a pass it passes by the sleeps).
Tick ==
    /\ pc # "loop"
    /\ \E d \in {DaySecs - SleepSecs, DaySecs} :
         /\ now + d <= MaxDays * DaySecs
         /\ now' = now + d
    /\ UNCHANGED <<crates, releases, pc, rows, idx, result, events, passes, fn_in, fn_out>>

\* A release is published (by the builder, outside this component).
AddRelease ==
    /\ Cardinality(releases) < MaxReleases
    /\ \E id \in CrateIds, url \in ReleaseUrls, rt \in 1..MaxReleaseTime :
         releases' = releases \cup
             {[crate_id |-> id, repository_url |-> url, release_time |-> rt]}
    /\ UNCHANGED <<crates, now, pc, rows, idx, result, events, passes, fn_in, fn_out>>

Next ==
    \/ QueryFails
    \/ Query
    \/ ProcessRow
    \/ ReturnOk
    \/ Tick
    \/ AddRelease

Spec == Init /\ [][Next]_vars

(***************************************************************************)
(* get_github_path called on its own, on URLs put together from parts.     *)
(***************************************************************************)
Prefixes == {<<>>, <<"x">>, <<"s", "e", "e", " ">>}

Schemes == {<<"h","t","t","p">>, <<"h","t","t","p","s">>, <<"f","t","p">>}

Hosts ==
    {<<"g","i","t","h","u","b",".","c","o","m">>,
     <<"g","i","t","h","u","b","x","c","o","m">>,
     <<"g","i","t","l","a","b",".","c","o","m">>}

\* What follows the host.
Tails ==
    {<<>>,
     <<"/">>,
     <<"/","o","n","u","r">>,
     <<"/","o","n","u","r","/">>,
     <<"/","/","c","r","a","t","e","s","f","y","i">>,
     <<"/","o","n","u","r","/","c","r","a","t","e","s","f","y","i">>,
     <<"/","o","n","u","r","/","c","r","a","t","e","s","f","y","i",".","g","i","t">>,
     <<"/","o","n","u","r","2","3","c","m","D","_","M","_","R","_","L","_",
       "/","c","r","a","t","e","s","_","f","y","-","i">>,
     <<"/","d","o","c","o","p","t","/","d","o","c","o","p","t",".","r","s">>,
     <<"/","a","/","x",".","g","i","t","y",".","g","i","t">>,
     <<"/","a","/",".","g","i","t">>,
     <<"/","a","/","b","/","t","r","e","e">>,
     <<"/","a","/","b","?","q">>,
     <<"/","a","/","b",".","g","i","t","/">>}

TestUrls ==
    {p \o sch \o <<":", "/", "/">> \o h \o tl :
        p \in Prefixes, sch \in Schemes, h \in Hosts, tl \in Tails}

InitPath ==
    /\ crates = [id \in CrateIds |-> NullCrate]
    /\ releases = {}
    /\ now = 0
    /\ pc = "idle"
    /\ rows = <<>>
    /\ idx = 1
    /\ result = "none"
    /\ events = <<>>
    /\ passes = 0
    /\ fn_in \in {Some(url) : url \in TestUrls}
    /\ fn_out = None

CallGetGithubPath ==
    /\ fn_in # None
    /\ fn_out = None
    /\ fn_out' = Some(get_github_path(fn_in[1]))
    /\ UNCHANGED <<crates, releases, now, pc, rows, idx, result, events, passes, fn_in>>

NextPath == CallGetGithubPath

SpecPath == InitPath /\ [][NextPath]_vars

(***************************************************************************)
(* C7  Extractor contract: get_github_path returns Some(owner/repo), with  *)
(* a trailing ".git" removed from repo, exactly for the strings that are,  *)
(* as a whole, http(s)://github.com/<owner>/<repo> with owner and repo     *)
(* non-empty runs of word characters, dots, underscores and hyphens; it    *)
(* returns None for every other string.                                    *)
(***************************************************************************)
\* url is, from its first to its last character, of the claimed form.
IsRepoUrl(url) ==
    \E sch \in {<<"h","t","t","p">>, <<"h","t","t","p","s">>} :
    \E i \in 1..Len(url), j \in 1..Len(url) :
        /\ SubSeq(url, 1, i - 1) = sch \o HostPart
        /\ i <= j - 1 /\ j < Len(url)
        /\ url[j] = "/"
        /\ \A k \in i..(j - 1) : IsPathChar(url[k])
        /\ \A k \in (j + 1)..Len(url) : IsPathChar(url[k])

\* owner/repo of such a url, the trailing ".git" removed.
OwnerRepo(url) ==
    LET i    == CHOOSE i \in 1..Len(url) :
                    \E sch \in {<<"h","t","t","p">>, <<"h","t","t","p","s">>} :
                        SubSeq(url, 1, i - 1) = sch \o HostPart
        rest == SubSeq(url, i, Len(url))
    IN  IF EndsWith(rest, DotGit) THEN SubSeq(rest, 1, Len(rest) - Len(DotGit))
        ELSE rest

C7_ExtractorContract ==
    fn_out # None =>
        fn_out[1] = IF IsRepoUrl(fn_in[1]) THEN Some(OwnerRepo(fn_in[1])) ELSE None

(***************************************************************************)
(* get_github_fields called on its own, on HTTP 200 responses whose body   *)
(* is a JSON object: each of the five fields is absent, of a wrong type,   *)
(* or valid.                                                               *)
(***************************************************************************)
JAbsent == [t |-> "absent", v |-> 0]

DescriptionValues == {JAbsent, JNull, JStr("x"), JStr(""), JPosInt(<<0, 0, 0, 5>>)}

\* 5, 2^31, 2^63 (a u64 above i64::MAX), -1, a float, a string
StarsValues ==
    {JAbsent, JPosInt(<<0, 0, 0, 5>>), JPosInt(<<0, 0, 2^15, 0>>),
     JPosInt(<<2^15, 0, 0, 0>>), JNegInt(<<2^16 - 1, 2^16 - 1, 2^16 - 1, 2^16 - 1>>),
     JFloat, JStr("5")}

ForksValues == {JAbsent, JPosInt(<<0, 0, 0, 3>>), JStr("3")}

IssuesValues == {JAbsent, JPosInt(<<0, 0, 0, 1>>), JBool(TRUE)}

PushedAtValues ==
    {JAbsent, JStr("1970-01-01T00:00:07Z"), JStr("1970-01-01T01:00:09+01:00"),
     JStr("yesterday"), JPosInt(<<0, 0, 0, 7>>)}

\* The object with the members of c that are not absent.
ObjectOf(c) == [k \in {k \in DOMAIN c : c[k] # JAbsent} |-> c[k]]

TestObjects ==
    {ObjectOf([description |-> d, stargazers_count |-> st, forks_count |-> f,
               open_issues |-> i, pushed_at |-> p]) :
        d \in DescriptionValues, st \in StarsValues, f \in ForksValues,
        i \in IssuesValues, p \in PushedAtValues}

InitFields ==
    /\ crates = [id \in CrateIds |-> NullCrate]
    /\ releases = {}
    /\ now \in {0, 100}
    /\ pc = "idle"
    /\ rows = <<>>
    /\ idx = 1
    /\ result = "none"
    /\ events = <<>>
    /\ passes = 0
    /\ fn_in \in {Some(obj) : obj \in TestObjects}
    /\ fn_out = None

CallGetGithubFields ==
    /\ fn_in # None
    /\ fn_out = None
    /\ fn_out' = Some(get_github_fields(
                          Response("ok", 200, "ok", Some(JObject(fn_in[1]))), now))
    /\ UNCHANGED <<crates, releases, now, pc, rows, idx, result, events, passes, fn_in>>

NextFields == CallGetGithubFields

SpecFields == InitFields /\ [][NextFields]_vars

(***************************************************************************)
(* C9  Field defaults: on an HTTP 200 response with a JSON object body the *)
(* Fetcher succeeds whatever fields are absent or wrong-typed, and each    *)
(* field of the record is the supplied value when it is valid (a string    *)
(* description, an integer that fits 64 bits, an RFC 3339 pushed_at) and   *)
(* otherwise its default: "", 0, 0, 0, the current time.                   *)
(***************************************************************************)
\* obj has member key, of one of the kinds.
Has(obj, key, kinds) == key \in DOMAIN obj /\ obj[key].t \in kinds

\* obj has member key, an integer in the range of i64.
HasInteger(obj, key) ==
    \/ Has(obj, key, {"negint"})
    \/ Has(obj, key, {"posint"}) /\ obj[key].v[1] < 2^15

\* The instants the RFC 3339 strings of the model denote, in seconds.
Rfc3339Instant ==
    ("1970-01-01T00:00:07Z" :> 7) @@ ("1970-01-01T01:00:09+01:00" :> 9)

ExpectedInteger(obj, key) == IF HasInteger(obj, key) THEN obj[key].v ELSE I64Zero

C9_FieldDefaults ==
    fn_out # None =>
        LET obj == fn_in[1]
            r   == fn_out[1]
        IN  /\ r.tag = "Ok"
            /\ r.val.description =
                   IF Has(obj, "description", {"str"}) THEN obj["description"].v ELSE ""
            /\ r.val.stars = ExpectedInteger(obj, "stargazers_count")
            /\ r.val.forks = ExpectedInteger(obj, "forks_count")
            /\ r.val.issues = ExpectedInteger(obj, "open_issues")
            /\ r.val.last_commit =
                   IF /\ Has(obj, "pushed_at", {"str"})
                      /\ obj["pushed_at"].v \in DOMAIN Rfc3339Instant
                   THEN Rfc3339Instant[obj["pushed_at"].v]
                   ELSE now

\* Some field is absent, another of a wrong type, another valid, and
\* pushed_at is a string that is not RFC 3339: the call has returned.
C9_Witness ==
    /\ fn_out # None
    /\ fn_in # None
    /\ "description" \notin DOMAIN fn_in[1]
    /\ Has(fn_in[1], "stargazers_count", {"float"})
    /\ HasInteger(fn_in[1], "forks_count")
    /\ Has(fn_in[1], "pushed_at", {"str"})
    /\ fn_in[1]["pushed_at"].v = "yesterday"
    /\ now = 100
    /\ fn_out[1].tag = "Ok"
    /\ fn_out[1].val.last_commit = 100

(***************************************************************************)
(* Reading the events of a pass                                            *)
(***************************************************************************)
\* The positions of the events of kind ev for row n.
EventsAt(ev, n) == {k \in 1..Len(events) : events[k].ev = ev /\ events[k].n = n}

\* Row n of the query has been taken up by the loop.
Processed(n) == EventsAt("extract", n) # {}

\* The invocation has ended: it returned, or it unwound.
Ended == pc \in {"returned", "panicked"}

\* The query of the running (or last) invocation succeeded.
QueryOk == events # <<>> /\ events[1].ev = "query" /\ events[1].info = "Ok"

\* The response of a request event is an HTTP 200 whose body is a JSON object.
IsObject200(resp) ==
    /\ resp.send = "ok" /\ resp.status = 200 /\ resp.read = "ok"
    /\ resp.json # None /\ resp.json[1].t = "object"

(***************************************************************************)
(* C1  Failure isolation: whatever way candidate N fails, candidate N+1 is *)
(* still processed; the invocation never ends with a candidate of its      *)
(* query left unprocessed behind a processed one.                          *)
(***************************************************************************)
C1_FailureIsolation ==
    \A n \in 1..(Len(rows) - 1) : (Ended /\ Processed(n)) => Processed(n + 1)

(***************************************************************************)
(* C2  github_updater returns an error exactly when its query fails, and   *)
(* then makes no remote call and no store write; in every other case it    *)
(* returns Ok.                                                             *)
(***************************************************************************)
C2_ErrIffQueryFails ==
    Ended =>
        IF QueryOk THEN result = "Ok"
        ELSE result = "Err" /\ Len(events) = 1

(***************************************************************************)
(* C3  For a candidate whose URL get_github_path maps to None, no remote   *)
(* request is made and no UPDATE is executed; the failure is logged with   *)
(* the crate's name and the loop goes on (sleeps, then takes the next row).*)
(***************************************************************************)
C3_NoPathNoRemoteCall ==
    \A n \in 1..Len(rows) :
        (Processed(n) /\ get_github_path(rows[n].repository_url) = None) =>
            /\ EventsAt("request", n) = {}
            /\ EventsAt("update", n) = {}
            /\ \E k \in EventsAt("log", n) : events[k].info = rows[n].name
            /\ EventsAt("sleep", n) # {}
            /\ idx > n

\* A pass over two candidates has returned; the first had no path, and the
\* second was processed after it.
C3_Witness ==
    /\ pc = "returned"
    /\ Len(rows) = 2
    /\ get_github_path(rows[1].repository_url) = None
    /\ Processed(1)
    /\ Processed(2)
    /\ EventsAt("request", 2) # {}

(***************************************************************************)
(* C4  The UPDATE is executed for a candidate only after the Fetcher       *)
(* succeeded for that candidate in the same pass: there was one request    *)
(* for it, answered by HTTP 200 with a readable JSON object body.          *)
(***************************************************************************)
C4_UpdateOnlyAfterFetch ==
    \A k \in 1..Len(events) :
        events[k].ev = "update" =>
            \E j \in 1..(k - 1) :
                /\ events[j].ev = "request"
                /\ events[j].n = events[k].n
                /\ events[j].info.result.tag = "Ok"
                /\ IsObject200(events[j].info.resp)

\* Of two candidates of a pass, one was answered 404 and has no UPDATE, the
\* other was fetched and updated.
C4_Witness ==
    /\ pc = "returned"
    /\ \E n \in 1..Len(rows), m \in 1..Len(rows) :
         /\ \E k \in EventsAt("request", n) : events[k].info.resp.status = 404
         /\ EventsAt("update", n) = {}
         /\ EventsAt("update", m) # {}

(***************************************************************************)
(* C5  Snapshot all-or-nothing: whenever a crate's five metadata columns   *)
(* change, all five become the values of one successful fetch made for     *)
(* that crate; otherwise all five stay as they were.                       *)
(***************************************************************************)
SnapshotOf(crate) ==
    <<crate.github_description, crate.github_stars, crate.github_forks,
      crate.github_issues, crate.github_last_commit>>

\* The five columns of the row hold the values of the fetched record.
HoldsFetch(crate, fields) ==
    /\ crate.github_description = Some(fields.description)
    /\ crate.github_stars # None /\ I64OfI32(crate.github_stars[1]) = fields.stars
    /\ crate.github_forks # None /\ I64OfI32(crate.github_forks[1]) = fields.forks
    /\ crate.github_issues # None /\ I64OfI32(crate.github_issues[1]) = fields.issues
    /\ crate.github_last_commit = Some(fields.last_commit)

C5_SnapshotAllOrNothing ==
    [][\A id \in CrateIds :
          \/ SnapshotOf(crates'[id]) = SnapshotOf(crates[id])
          \/ \E k \in 1..Len(events') :
                /\ events'[k].ev = "request"
                /\ events'[k].info.result.tag = "Ok"
                /\ rows[events'[k].n].id = id
                /\ HoldsFetch(crates'[id], events'[k].info.result.val)]_vars

(***************************************************************************)
(* C6  (as claimed) Once a candidate has been attempted in a pass, its     *)
(* github_last_update is the time of the attempt, whether or not the       *)
(* remote call succeeded.                                                  *)
(***************************************************************************)
C6_LastSyncOnAnyAttempt ==
    \A n \in 1..Len(rows) :
        EventsAt("sleep", n) # {} =>
            \E k \in EventsAt("extract", n) :
                crates[rows[n].id].github_last_update = Some(events[k].at)

(***************************************************************************)
(* C6  (amended) Attempting a candidate sets its github_last_update to the *)
(* current time when the fetch and the UPDATE both succeeded, and leaves   *)
(* it as it was when the attempt failed at extraction, fetch or UPDATE.    *)
(***************************************************************************)
C6_LastSyncOnSuccessOnly ==
    [][(pc = "loop" /\ idx <= Len(rows) /\ events' # events) =>
          LET id == rows[idx].id
              ok == \E k \in (Len(events) + 1)..Len(events') :
                        /\ events'[k].ev = "update"
                        /\ events'[k].info.result.tag = "Ok"
          IN  crates'[id].github_last_update =
                  IF ok THEN Some(now) ELSE crates[id].github_last_update]_vars

\* A pass has returned in which one candidate's fetch failed and its
\* github_last_update is still NULL, and another's succeeded and was stamped.
C6_Witness ==
    /\ pc = "returned"
    /\ \E n \in 1..Len(rows), m \in 1..Len(rows) :
         /\ \E k \in EventsAt("request", n) : events[k].info.result.tag = "Err"
         /\ crates[rows[n].id].github_last_update = None
         /\ \E k \in EventsAt("update", m) :
                /\ events[k].info.result.tag = "Ok"
                /\ crates[rows[m].id].github_last_update = Some(events[k].at)

(***************************************************************************)
(* C8  Every call of the Fetcher ends in a record or in one of             *)
(* TransportError, RemoteUnavailable and ParseError; it ends in a record   *)
(* only on an HTTP 200 with a JSON object body, and an HTTP 200 whose body *)
(* is JSON but not an object ends in an error value.                       *)
(***************************************************************************)
ErrorKind(e) ==
    CASE e = "reqwest::Error" -> "TransportError"
      [] e = "io::Error" -> "TransportError"
      [] e = "Failed to get github data" -> "RemoteUnavailable"
      [] e = "serde_json::Error" -> "ParseError"
      [] OTHER -> "other"

C8_FetcherOutcomes ==
    \A k \in 1..Len(events) :
        events[k].ev = "request" =>
            LET r    == events[k].info.result
                resp == events[k].info.resp
            IN  /\ r.tag \in {"Ok", "Err"}
                /\ r.tag = "Ok" => IsObject200(resp)
                /\ r.tag = "Err" =>
                       ErrorKind(r.val) \in
                           {"TransportError", "RemoteUnavailable", "ParseError"}

(***************************************************************************)
(* C10  The query returns exactly one row for each crate that has a        *)
(* release whose URL matches the pattern and whose github_last_update is   *)
(* NULL or older than now minus one day, and no row for any other crate;   *)
(* the row's URL is that of a newest (by release_time) matching release of *)
(* the crate, and the rows are in ascending order of crate name.           *)
(***************************************************************************)
MatchingReleases(rel, id) ==
    {r \in rel : r.crate_id = id /\ SqlMatches(r.repository_url)}

SelectorContract(rs, cr, rel, t) ==
    /\ \A id \in CrateIds :
         LET eligible ==
                 /\ MatchingReleases(rel, id) # {}
                 /\ \/ cr[id].github_last_update = None
                    \/ cr[id].github_last_update[1] < t - DaySecs
         IN  Cardinality({k \in 1..Len(rs) : rs[k].id = id}) =
                 IF eligible THEN 1 ELSE 0
    /\ \A k \in 1..Len(rs) :
         /\ rs[k].name = CrateName(rs[k].id)
         /\ \E r \in MatchingReleases(rel, rs[k].id) :
              /\ r.repository_url = rs[k].repository_url
              /\ \A q \in MatchingReleases(rel, rs[k].id) :
                     q.release_time <= r.release_time
    /\ \A k \in 1..Len(rs), l \in 1..Len(rs) : k < l => rs[k].name < rs[l].name

C10_SelectorContract ==
    [][(pc # "loop" /\ pc' = "loop") =>
          SelectorContract(rows', crates, releases, now)]_vars

\* A query has just returned one row, for a crate that has an older and a
\* newer matching release with different URLs: the row has the newer one's
\* URL; the other crate has no matching release and no row.
C10_Witness ==
    /\ pc = "loop"
    /\ Len(events) = 1
    /\ Len(rows) = 1
    /\ \E r \in MatchingReleases(releases, rows[1].id) :
         /\ r.repository_url # rows[1].repository_url
         /\ \A q \in MatchingReleases(releases, rows[1].id) \ {r} :
                r.release_time < q.release_time
    /\ \E id \in CrateIds : MatchingReleases(releases, id) = {}

(***************************************************************************)
(* C11  Freshness: a crate synced successfully at time t (its              *)
(* github_last_update) is in no row of a query issued after t and before   *)
(* t plus one day, so a pass started then makes no remote call for it.     *)
(***************************************************************************)
\* The time of the query of the running (or last) pass.
QueryTime == events[1].at

\* Crate id was synced before the query of this pass, less than a day before.
SyncedWithinDay(id) ==
    /\ QueryOk
    /\ crates[id].github_last_update # None
    /\ crates[id].github_last_update[1] < QueryTime
    /\ QueryTime < crates[id].github_last_update[1] + DaySecs

C11_Freshness ==
    \A id \in CrateIds :
        SyncedWithinDay(id) =>
            /\ \A n \in 1..Len(rows) : rows[n].id # id
            /\ \A k \in 1..Len(events) :
                   events[k].ev = "request" => rows[events[k].n].id # id

\* A second pass, started less than a day after a crate was synced, has
\* returned: it left that crate out and made a remote call for the other.
C11_Witness ==
    /\ pc = "returned"
    /\ passes = 2
    /\ \E id \in CrateIds : SyncedWithinDay(id)
    /\ \E k \in 1..Len(events) : events[k].ev = "request"

(***************************************************************************)
(* C12  Retry on the next invocation: a candidate whose processing failed  *)
(* in a pass (no path, a failed fetch, a failed UPDATE) is in the rows of  *)
(* the query of the next pass, however soon that pass starts.              *)
(***************************************************************************)
\* Row n of the pass was processed and did not end in a successful UPDATE
\* after an HTTP 200 with a JSON object.
FailedRow(n) ==
    /\ Processed(n)
    /\ \/ get_github_path(rows[n].repository_url) = None
       \/ \E k \in EventsAt("request", n) : ~IsObject200(events[k].info.resp)
       \/ \E k \in EventsAt("update", n) : events[k].info.result.tag = "Err"

C12_RetryNextPass ==
    [][(pc # "loop" /\ pc' = "loop") =>
          \A n \in 1..Len(rows) :
              FailedRow(n) => \E m \in 1..Len(rows') : rows'[m].id = rows[n].id]_vars

\* A second pass has just been queried, at the very time the first one
\* ended after its two candidates: one of them was synced, the other failed
\* and is selected again.
C12_Witness ==
    /\ pc = "loop"
    /\ passes = 2
    /\ Len(events) = 1
    /\ QueryTime = 2 * SleepSecs
    /\ \E m \in 1..Len(rows) : crates[rows[m].id].github_last_update = None
    /\ \E id \in CrateIds : crates[id].github_last_update # None

(***************************************************************************)
(* C13  Within one pass at most one remote request and at most one UPDATE  *)
(* is issued per crate, whether its first attempt succeeded or failed.     *)
(***************************************************************************)
\* The positions of the events of kind ev for crate id.
EventsFor(ev, id) ==
    {k \in 1..Len(events) : events[k].ev = ev /\ rows[events[k].n].id = id}

C13_OncePerCrate ==
    \A id \in CrateIds :
        /\ Cardinality(EventsFor("request", id)) <= 1
        /\ Cardinality(EventsFor("update", id)) <= 1

\* A pass over two candidates has returned: one request each, one failed
\* and one followed by its UPDATE.
C13_Witness ==
    /\ pc = "returned"
    /\ Len(rows) = 2
    /\ \A n \in 1..2 : Cardinality(EventsAt("request", n)) = 1
    /\ \E n \in 1..2 : \E k \in EventsAt("request", n) :
           events[k].info.result.tag = "Err"
    /\ \E n \in 1..2 : Cardinality(EventsAt("update", n)) = 1

(***************************************************************************)
(* The UPDATE of lines 44-59 on its own: one record and one crate id, the  *)
(* statement executed over and over with them on a store whose rows are    *)
(* NULL or hold an earlier record.                                         *)
(***************************************************************************)
MaxExecutes == 3

\* The records get_github_fields can return.
TestFields == {GitHubFields(obj, 0) : obj \in TestObjects}

\* A row written by an earlier UPDATE.
StoredCrate == Update([id \in CrateIds |-> NullCrate], 1,
                      GitHubFields(ObjPartial, 0), 0)[1]

InitPersist ==
    /\ crates \in [CrateIds -> {NullCrate, StoredCrate}]
    /\ releases = {}
    /\ now = SleepSecs
    /\ pc = "idle"
    /\ rows = <<>>
    /\ idx = 1
    /\ result = "none"
    /\ events = <<>>
    /\ passes = 0
    /\ fn_in \in {Some([id |-> id, fields |-> f]) : id \in CrateIds, f \in TestFields}
    /\ fn_out = None

\* conn.execute with the record and the id; fn_out keeps the row as the
\* first execution left it and the number of executions.
Execute ==
    /\ fn_in # None
    /\ IF fn_out = None THEN TRUE ELSE fn_out[1].n < MaxExecutes
    /\ crates' = Update(crates, fn_in[1].id, fn_in[1].fields, now)
    /\ now' = now + SleepSecs
    /\ fn_out' = IF fn_out = None
                 THEN Some([once |-> crates'[fn_in[1].id], n |-> 1])
                 ELSE Some([fn_out[1] EXCEPT !.n = @ + 1])
    /\ UNCHANGED <<releases, pc, rows, idx, result, events, passes, fn_in>>

NextPersist == Execute

SpecPersist == InitPersist /\ [][NextPersist]_vars

(***************************************************************************)
(* C14  The UPDATE is idempotent on the five metadata columns: executed    *)
(* again with the same record and the same id, it leaves them as the first *)
(* execution left them; only github_last_update may differ.               *)
(***************************************************************************)
C14_UpdateIdempotent ==
    fn_out # None =>
        SnapshotOf(crates[fn_in[1].id]) = SnapshotOf(fn_out[1].once)

\* The UPDATE was executed twice with a record other than the one an earlier
\* UPDATE had stored; the second execution stamped a later time.
C14_Witness ==
    /\ fn_out # None
    /\ fn_out[1].n = 2
    /\ crates[fn_in[1].id].github_last_update # fn_out[1].once.github_last_update
    /\ SnapshotOf(fn_out[1].once) # SnapshotOf(StoredCrate)

(***************************************************************************)
(* C15  The candidates of a pass are the rows of its one query: the loop   *)
(* takes up exactly those rows, each once, in the order returned, and the  *)
(* pass ends after the last of them.                                       *)
(***************************************************************************)
\* The candidates taken up so far, in the order they were taken up: for each
\* the position of its row and the path extracted from its URL.
TakenUp ==
    LET IsExtract(e) == e.ev = "extract"
    IN  SelectSeq(events, IsExtract)

C15_FixedCandidateList ==
    QueryOk =>
        /\ Len(TakenUp) <= Len(rows)
        /\ \A k \in 1..Len(TakenUp) :
               /\ TakenUp[k].n = k
               /\ TakenUp[k].info = get_github_path(rows[k].repository_url)
        /\ Ended => Len(TakenUp) = Len(rows)

(***************************************************************************)
(* C16  Ordering and rate limiting: for each candidate the events are the  *)
(* extraction, then the request (only with a path), then the UPDATE (only  *)
(* after a fetched record), then exactly one pause of 2 seconds whatever   *)
(* the outcome; so a pause lies between any two requests of a pass, the    *)
(* UPDATE of a candidate precedes the request of the next, and a pass that *)
(* has ended made as many pauses as it had candidates.                     *)
(***************************************************************************)
\* Every event at a position in S comes before every event at one in T.
Before(S, T) == \A i \in S, j \in T : i < j

\* The events of row n: one extraction, at most one request and only with a
\* path, at most one UPDATE and only after a fetched record, in that order.
Ordered(n) ==
    /\ Cardinality(EventsAt("extract", n)) = 1
    /\ Cardinality(EventsAt("request", n)) <= 1
    /\ Cardinality(EventsAt("update", n)) <= 1
    /\ EventsAt("request", n) # {} =>
           \A k \in EventsAt("extract", n) : events[k].info # None
    /\ EventsAt("update", n) # {} =>
           \E k \in EventsAt("request", n) : events[k].info.result.tag = "Ok"
    /\ Before(EventsAt("extract", n), EventsAt("request", n))
    /\ Before(EventsAt("request", n), EventsAt("update", n))
    /\ Before(EventsAt("update", n), EventsAt("request", n + 1))

\* Row n ended in exactly one pause of 2 seconds, after its other events.
PausedOnce(n) ==
    /\ Cardinality(EventsAt("sleep", n)) = 1
    /\ \A k \in EventsAt("sleep", n) : events[k].info = 2
    /\ \A ev \in {"extract", "request", "update", "log"} :
           Before(EventsAt(ev, n), EventsAt("sleep", n))

C16_OrderedAndPaced ==
    /\ \A n \in 1..Len(rows) : Processed(n) => Ordered(n) /\ PausedOnce(n)
    /\ \A i, j \in 1..Len(events) :
           (i < j /\ events[i].ev = "request" /\ events[j].ev = "request") =>
               \E k \in (i + 1)..(j - 1) : events[k].ev = "sleep"
    /\ (Ended /\ QueryOk) =>
           Cardinality({k \in 1..Len(events) : events[k].ev = "sleep"}) = Len(rows)

(***************************************************************************)
(* C17  When the captured repo segment ends with ".git", get_github_path   *)
(* returns the repo with exactly that trailing suffix removed and all      *)
(* before it kept, also when ".git" occurs earlier in the name; a repo     *)
(* that does not end with ".git" is returned unchanged.                    *)
(***************************************************************************)
\* The repo without a trailing ".git".
WithoutSuffix(repo) ==
    IF EndsWith(repo, DotGit) THEN SubSeq(repo, 1, Len(repo) - Len(DotGit))
    ELSE repo

C17_OnlyTrailingGitRemoved ==
    (fn_out # None /\ Captures(fn_in[1]) # None) =>
        LET cap == Captures(fn_in[1])[1]
        IN  fn_out[1] = Some(cap.username \o <<"/">> \o WithoutSuffix(cap.reponame))

(***************************************************************************)
(* C18  Frame: processing a candidate that fails (at extraction, at the    *)
(* fetch) leaves every row of crates as it was; processing one that        *)
(* succeeds changes only the row whose id is the candidate's and leaves    *)
(* every other crate's columns, github_last_update included, as they were. *)
(***************************************************************************)
C18_Frame ==
    [][(pc = "loop" /\ idx <= Len(rows) /\ events' # events) =>
          LET ok == \E k \in (Len(events) + 1)..Len(events') :
                        /\ events'[k].ev = "update"
                        /\ events'[k].info.result.tag = "Ok"
          IN  IF ok
              THEN \A id \in CrateIds \ {rows[idx].id} : crates'[id] = crates[id]
              ELSE crates' = crates]_vars

\* A pass over two candidates has returned: the first was synced, the
\* second failed at extraction; the first crate's row holds the sync and the
\* second crate's row is still all NULL.
C18_Witness ==
    /\ pc = "returned"
    /\ Len(rows) = 2
    /\ \E k \in EventsAt("update", 1) : events[k].info.result.tag = "Ok"
    /\ \E k \in EventsAt("extract", 2) : events[k].info = None
    /\ crates[rows[1].id].github_last_update = Some(QueryTime)
    /\ crates[rows[2].id] = NullCrate

(***************************************************************************)
(* C19  The stars, forks and issues stored by the UPDATE equal the values  *)
(* fetched (64-bit integers), also for values above 2^31 - 1: none is      *)
(* stored as another (wrapped, negative) number.                           *)
(***************************************************************************)
C19_CountsStoredAsFetched ==
    \A n \in 1..Len(rows) :
        (\E u \in EventsAt("update", n) : events[u].info.result.tag = "Ok") =>
            \A k \in EventsAt("request", n) :
                LET fields == events[k].info.result.val
                    crate  == crates[rows[n].id]
                IN  /\ I64OfI32(crate.github_stars[1]) = fields.stars
                    /\ I64OfI32(crate.github_forks[1]) = fields.forks
                    /\ I64OfI32(crate.github_issues[1]) = fields.issues

(***************************************************************************)
(* C20  Selector determinism: two runs of the query on the same store at   *)
(* the same time return the same sequence of rows, with the same URL for a *)
(* crate that has two qualifying releases of equal release_time and        *)
(* different URLs.                                                         *)
(***************************************************************************)
C20_SelectorDeterministic ==
    \A first, second \in Select(crates, releases, now) : first = second

=============================================================================
